---- MODULE Spec2Model ----
(***************************************************************************)
(* A model of the video pipeline driven by scripts/run_all.py:             *)
(* process_video runs Load, Extract, Transcribe (per configured model),    *)
(* Summarize (per transcript and summarization model) and Derive (mind     *)
(* map and notes/FAQ per summary) over a file system that maps a path to   *)
(* the size of the file stored there.                                      *)
(*                                                                         *)
(* File names are sequences of tokens joined by "_" ("whisper_base" is     *)
(* <<"whisper", "base">>), so that the naming rules of the stage runners   *)
(* and of get_unique_filename act on the same structure as in the code.    *)
(***************************************************************************)
EXTENDS Integers, Sequences, FiniteSets, TLC

\* ---------------------------------------------------------------- bounds
\* Longest configured list of transcription / summarization models.
MaxT == 2
MaxS == 2

\* ------------------------------------------------------ program constants
\* validate_file_output's default min_size_bytes (video, audio, derivatives).
DefaultMinBytes == 100
\* min_size_bytes for a transcript and for a summary in process_video.
TranscriptMinBytes == 500
SummaryMinBytes == 200
\* AudioExtractor.extract rejects an output smaller than this.
AudioMinBytes == 1024
\* WhisperTranscriber.transcribe retries / rejects below this word count.
MinWords == 10

\* ------------------------------------------------------------ model ids
WhisperBase == <<"whisper", "base">>
Vosk == <<"vosk">>
\* A name TranscriberFactory.create does not know.
Wav2Vec == <<"wav2vec">>
TranscriptionIds == {WhisperBase, Vosk, Wav2Vec}

Bart == <<"bart">>
SupportedSummarizers == {Bart, <<"t5">>, <<"pegasus">>, <<"gpt2">>, <<"mt5">>}
\* Names a configuration may list; <<"llama">> is unknown to SummarizerFactory.
SummarizationIds == {Bart, <<"llama">>}

\* All sequences over S of length at most n.
SeqsUpTo(S, n) == UNION {[1..k -> S] : k \in 0..n}

\* ------------------------------------------------------------ file system
\* A path: directory, file stem as "_"-joined tokens, extension.
Path(dir, name, ext) == [dir |-> dir, name |-> name, ext |-> ext]
NoPath == Path("", <<>>, "")

\* os.path.exists / os.path.getsize over the model's file system.
Exists(f, p) == p \in DOMAIN f
\* open(p, "w").write(...): creates or replaces the file at p.
WriteFile(f, p, size) == [q \in DOMAIN f \cup {p} |-> IF q = p THEN size ELSE f[q]]

\* Mutant of validate_file_output: the size check is forgotten.
validate_file_output_exists_only(f, file_path, min_size_bytes) == Exists(f, file_path)

\* Mutant of validate_file_output: a file of exactly min_size_bytes is rejected.
validate_file_output_strict(f, file_path, min_size_bytes) ==
    IF ~Exists(f, file_path) THEN FALSE
    ELSE f[file_path] > min_size_bytes

\* run_all.validate_file_output
validate_file_output(f, file_path, min_size_bytes) ==
    IF ~Exists(f, file_path) THEN FALSE
    ELSE f[file_path] >= min_size_bytes

\* str(counter) for the counters get_unique_filename can reach in this model.
CounterStr == <<"1", "2", "3", "4", "5", "6", "7", "8", "9", "10", "11", "12">>
IsCounter(tok) == \E i \in DOMAIN CounterStr : CounterStr[i] = tok

\* re.match(r"^(.+)_(\d+)$", name): group(1) when it matches, else name.
StripCounter(name) ==
    IF Len(name) > 1 /\ IsCounter(name[Len(name)])
    THEN SubSeq(name, 1, Len(name) - 1)
    ELSE name

\* Mutant of UniqueLoop: `if` for `while`, the new name is not checked again.
UniqueLoop_once(f, base_path, name, counter) ==
    Path(base_path.dir, Append(StripCounter(name), CounterStr[counter]), base_path.ext)

\* The while loop of get_unique_filename (utils.py 118-129).
RECURSIVE UniqueLoop(_, _, _, _)
UniqueLoop(f, base_path, name, counter) ==
    IF ~Exists(f, base_path) THEN base_path
    ELSE LET stripped == StripCounter(name)
             new_name == Append(stripped, CounterStr[counter])
         IN UniqueLoop(f, Path(base_path.dir, new_name, base_path.ext),
                       stripped, counter + 1)

\* utils.get_unique_filename
get_unique_filename(f, base_path) ==
    IF ~Exists(f, base_path) THEN base_path
    ELSE UniqueLoop(f, base_path, base_path.name, 1)

\* ------------------------------------------------------- ordered mappings
\* A Python dict as the sequence of its (key, value) items in insertion order.
HasKey(d, k) == \E i \in DOMAIN d : d[i][1] = k
\* Mutant of DictSet: the new item is put in front.
DictSet_front(d, k, v) == <<<<k, v>>>> \o d

\* d[k] = v: a new key is appended, an existing key keeps its position.
DictSet(d, k, v) ==
    IF HasKey(d, k)
    THEN [i \in DOMAIN d |-> IF d[i][1] = k THEN <<k, v>> ELSE d[i]]
    ELSE Append(d, <<k, v>>)

\* ------------------------------------------------------ collaborator outcomes
\* What a collaborator that produces a file can do: raise, or leave `size` bytes.
FileOutcomes(sizes) ==
    {[raised |-> TRUE, size |-> 0]} \cup {[raised |-> FALSE, size |-> n] : n \in sizes}

\* A text an inference provider can return: its word count and its byte length.
Text(words, bytes) == [words |-> words, bytes |-> bytes]
EmptyText == Text(0, 0)
Texts == {EmptyText, Text(9, 60), Text(12, 499), Text(90, 500)}
\* One inference call: it raises, or returns a text.
InferenceOutcomes ==
    {[raised |-> TRUE, text |-> EmptyText]} \cup {[raised |-> FALSE, text |-> t] : t \in Texts}

\* uuid.uuid4()[:8] in AudioExtractor.extract.
Uuids == {"3f2a9c1e", "7b0d4e55"}

Raised(msg, n) == [raised |-> TRUE, msg |-> msg, text |-> EmptyText, inferences |-> n]
Returned(text, n) == [raised |-> FALSE, msg |-> "", text |-> text, inferences |-> n]

\* WhisperTranscriber.transcribe: `first` is the outcome of the first
\* model.transcribe call, `retry` that of the second (beam_size=5, best_of=5).
WhisperTranscriber_transcribe(first, retry) ==
    IF first.raised THEN Raised("InferenceError", 1)
    ELSE IF first.text.bytes = 0 THEN Raised("Empty transcription result", 1)
    ELSE IF first.text.words < MinWords
         THEN IF retry.raised THEN Raised("InferenceError", 2)
              ELSE IF retry.text.words < MinWords
                   THEN Raised("Transcription seems too short", 2)
                   ELSE Returned(retry.text, 2)
    ELSE Returned(first.text, 1)

\* VoskTranscriber.transcribe: joins whatever the recognizer produced.
VoskTranscriber_transcribe(first) ==
    IF first.raised THEN Raised("InferenceError", 1) ELSE Returned(first.text, 1)

\* TranscriberFactory.create followed by transcriber.transcribe(audio_path).
TranscriberFactory_transcribe(model_name, first, retry) ==
    IF model_name = WhisperBase THEN WhisperTranscriber_transcribe(first, retry)
    ELSE IF model_name = Vosk THEN VoskTranscriber_transcribe(first)
    ELSE Raised("Unsupported transcription model", 0)

\* Transcriber.transcribe: the text is saved under a name get_unique_filename
\* allocates; the result carries the file system after the write.
Transcriber_transcribe(f, audio, model_name, first, retry) ==
    LET r == TranscriberFactory_transcribe(model_name, first, retry)
        base_output_path == Path("transcripts", audio.name \o model_name, "txt")
        output_path == get_unique_filename(f, base_output_path)
    IN IF r.raised
       THEN [raised |-> TRUE, msg |-> r.msg, fs |-> f, path |-> NoPath,
             inferences |-> r.inferences]
       ELSE [raised |-> FALSE, msg |-> "", fs |-> WriteFile(f, output_path, r.text.bytes),
             path |-> output_path, inferences |-> r.inferences]

\* Summarizer.summarize: SummarizerFactory.create, the model's summarize, then
\* the summary is written to <transcript stem>_<model>.md (no unique name).
Summarizer_summarize(f, transcript, model_name, out) ==
    LET output_path == Path("summaries", transcript.name \o model_name, "md")
    IN IF model_name \notin SupportedSummarizers
       THEN [raised |-> TRUE, msg |-> "Unsupported summarization model", fs |-> f,
             path |-> NoPath]
       ELSE IF out.raised
       THEN [raised |-> TRUE, msg |-> "InferenceError", fs |-> f, path |-> NoPath]
       ELSE [raised |-> FALSE, msg |-> "", fs |-> WriteFile(f, output_path, out.size),
             path |-> output_path]

\* MindMapGenerator.generate: renders <summary stem>_mindmap.png.
MindMapGenerator_generate(f, summary, out) ==
    LET output_path == Path("mindmaps", Append(summary.name, "mindmap"), "png")
    IN IF out.raised
       THEN [raised |-> TRUE, fs |-> f, path |-> NoPath]
       ELSE [raised |-> FALSE, fs |-> WriteFile(f, output_path, out.size),
             path |-> output_path]

\* NoteGenerator.generate: writes <summary stem>_notes.md and <summary stem>_faqs.md.
NoteGenerator_generate(f, summary, out) ==
    LET notes_path == Path("notes", Append(summary.name, "notes"), "md")
        faq_path == Path("faqs", Append(summary.name, "faqs"), "md")
    IN IF out.raised
       THEN [raised |-> TRUE, fs |-> f, notes |-> NoPath, faq |-> NoPath]
       ELSE [raised |-> FALSE,
             fs |-> WriteFile(WriteFile(f, notes_path, out.notes), faq_path, out.faq),
             notes |-> notes_path, faq |-> faq_path]

\* What NoteGenerator.generate can do: raise, or leave a notes and a FAQ file.
NoteOutcomes ==
    {[raised |-> TRUE, notes |-> 0, faq |-> 0]}
    \cup {[raised |-> FALSE, notes |-> n, faq |-> q] :
            <<n, q>> \in {<<100, 100>>, <<99, 100>>, <<100, 99>>}}

\* ------------------------------------------------------------ process_video
VARIABLES
    pc,           \* where process_video is: Loading, Extracting, Transcribing,
                  \* Summarizing, Constructing (lines 99-100), Deriving
    status,       \* Running, Completed (returned) or Aborted (an exception left it)
    config,       \* config["models"]: the two ordered model lists
    fs,           \* the file system: path -> size in bytes
    video_path,   \* locals of process_video
    audio_path,
    transcripts,  \* dict model_name -> transcript path
    summaries,    \* dict "<transcript_model>_<summary_model>" -> summary path
    t_idx,        \* entries of config.transcription already iterated
    s_idx,        \* (transcript, summary model) combinations already iterated
    d_idx,        \* items of summaries already iterated
    log,          \* records written through logger.info / logger.error
    calls,        \* collaborator calls made so far, in order
    reason,       \* message of the exception that left process_video, "" if none
    returned,     \* value process_video returned: None is <<>>
    \* a caller of get_unique_filename (Transcriber.transcribe 142-146)
    base_output_path,  \* the desired path it asks for
    allocated,         \* its calls so far: the path returned, the files before
    \* TransformerSummarizer._chunk_text
    text,              \* the pieces text.split('.') yields: token count, 0 if blank
    max_chunk_size,
    chunks,            \* locals of _chunk_text; a sentence is its index in
    current_chunk,     \* Sentences(text)
    current_length,
    c_idx,             \* sentences the for loop has consumed
    chunked,           \* _chunk_text has returned
    source_text,       \* the text as words and "." tokens, <<>> when only its
                       \* pieces are given
    \* TransformerSummarizer.summarize
    generated,         \* model.generate calls that returned: the chunk and the output
    inferred,          \* every input given to model.generate, in call order
    summary,           \* the string summarize returned
    s_status,          \* Idle, Running, Returned or Raised
    \* WhisperTranscriber.transcribe
    whisper_call,      \* the call made: both inference outcomes and the result
    \* a second run of the same video and configuration, for comparison
    fs2,
    audio_path2,
    \* the logging module and the log directory
    loggers,           \* logging.getLogger registry: name -> handlers added
    log_files,         \* log file -> records written to it
    runs,              \* setup_logging calls so far: the files of each run
    \* main
    clean,             \* args.clean
    raw_config         \* what yaml.safe_load returned

\* The state of process_video, of the allocator's caller and of _chunk_text.
run == <<pc, status, config, video_path, audio_path, transcripts, summaries,
         t_idx, s_idx, d_idx, log, calls, reason, returned>>
caller == <<base_output_path, allocated>>
chunker == <<text, max_chunk_size, chunks, current_chunk, current_length, c_idx, chunked,
             source_text>>
summarizer == <<generated, inferred, summary, s_status>>
twin == <<fs2, audio_path2>>
logsys == <<loggers, log_files, runs>>
mainargs == <<clean, raw_config>>
\* Everything but process_video, the allocator's caller and _chunk_text.
others == <<summarizer, whisper_call, twin, logsys, mainargs>>

vars == <<pc, status, config, fs, video_path, audio_path, transcripts, summaries,
          t_idx, s_idx, d_idx, log, calls, reason, returned,
          base_output_path, allocated,
          text, max_chunk_size, chunks, current_chunk, current_length, c_idx, chunked,
          source_text, generated, inferred, summary, s_status, whisper_call, fs2, audio_path2,
          loggers, log_files, runs, clean, raw_config>>

\* get_video_name(video_source) and the path VideoLoader.load returns.
VideoName == <<"lecture">>
VideoFile == Path("videos", VideoName, "mp4")

EmptyFs == [p \in {} |-> 0]

Info(lg, msg, subject) == Append(lg, [level |-> "INFO", msg |-> msg, subject |-> subject])
Error(lg, msg, subject) == Append(lg, [level |-> "ERROR", msg |-> msg, subject |-> subject])
Call(op, path, model) == [op |-> op, path |-> path, model |-> model]

\* No caller of get_unique_filename other than process_video's stages.
CallerIdle ==
    /\ base_output_path = NoPath
    /\ allocated = <<>>

\* _chunk_text is not running.
ChunkerIdle ==
    /\ text = <<>>
    /\ max_chunk_size = 0
    /\ chunks = <<>>
    /\ current_chunk = <<>>
    /\ current_length = 0
    /\ c_idx = 0
    /\ chunked = FALSE
    /\ source_text = <<>>

\* TransformerSummarizer.summarize is not running.
SummarizerIdle ==
    /\ generated = <<>>
    /\ inferred = <<>>
    /\ summary = <<>>
    /\ s_status = "Idle"

\* No call of WhisperTranscriber.transcribe is followed on its own.
NoWhisperCall == [made |-> FALSE]
WhisperIdle == whisper_call = NoWhisperCall

\* No second run is followed.
TwinIdle ==
    /\ fs2 = EmptyFs
    /\ audio_path2 = NoPath

\* setup_logging has not been called in this process.
LoggingIdle ==
    /\ loggers = <<>>
    /\ log_files = <<>>
    /\ runs = <<>>

\* process_video is called directly, not through main.
MainIdle ==
    /\ clean = "none"
    /\ raw_config = <<>>

OthersIdle ==
    /\ SummarizerIdle
    /\ WhisperIdle
    /\ TwinIdle
    /\ LoggingIdle
    /\ MainIdle

\* process_video has not been entered.
RunIdle ==
    /\ pc = "Idle"
    /\ status = "Idle"
    /\ config = [transcription |-> <<>>, summarization |-> <<>>]
    /\ video_path = NoPath
    /\ audio_path = NoPath
    /\ transcripts = <<>>
    /\ summaries = <<>>
    /\ t_idx = 0
    /\ s_idx = 0
    /\ d_idx = 0
    /\ log = <<>>
    /\ calls = <<>>
    /\ reason = ""
    /\ returned = <<>>

Init ==
    /\ pc = "Loading"
    /\ status = "Running"
    /\ config \in [transcription : SeqsUpTo(TranscriptionIds, MaxT),
                   summarization : SeqsUpTo(SummarizationIds, MaxS)]
    /\ fs = EmptyFs
    /\ video_path = NoPath
    /\ audio_path = NoPath
    /\ transcripts = <<>>
    /\ summaries = <<>>
    /\ t_idx = 0
    /\ s_idx = 0
    /\ d_idx = 0
    /\ log = <<>>
    /\ calls = <<>>
    /\ reason = ""
    /\ returned = <<>>
    /\ CallerIdle
    /\ ChunkerIdle
    /\ OthersIdle

\* except Exception as e: logger.error(...); raise   (run_all.py 121-123)
Raise(lg, msg) ==
    /\ pc' = pc
    /\ status' = "Aborted"
    /\ reason' = msg
    /\ log' = Error(lg, "Error during processing", <<msg>>)

\* The step goes on to stage `next` without an exception.
Goto(lg, next) ==
    /\ pc' = next
    /\ status' = status
    /\ reason' = reason
    /\ log' = lg

\* run_all.py 43-48
Load ==
    /\ pc = "Loading"
    /\ status = "Running"
    /\ \E out \in FileOutcomes({99, 100}) :
         LET lg == Info(log, "Loading video", VideoName)
             f == IF out.raised THEN fs ELSE WriteFile(fs, VideoFile, out.size)
         IN /\ calls' = Append(calls, Call("load", VideoFile, <<>>))
            /\ fs' = f
            /\ video_path' = IF out.raised THEN NoPath ELSE VideoFile
            /\ IF out.raised THEN Raise(lg, "Unsupported video source")
               ELSE IF ~validate_file_output(f, VideoFile, DefaultMinBytes)
                    THEN Raise(lg, "Video loading failed")
                    ELSE Goto(lg, "Extracting")
    /\ UNCHANGED <<config, audio_path, transcripts, summaries, t_idx, s_idx, d_idx, returned>>
    /\ UNCHANGED <<caller, chunker, others>>

\* AudioExtractor.extract: validate_video, ffmpeg, then the size check (62-63).
AudioExtractor_extract(f, video, uuid, out) ==
    LET output_path == Path("audios", Append(video.name, uuid), "wav")
        written == WriteFile(f, output_path, out.size)
    IN IF out.raised
       THEN [raised |-> TRUE, msg |-> "Invalid video file", fs |-> f, path |-> NoPath]
       ELSE IF written[output_path] < AudioMinBytes
       THEN [raised |-> TRUE, msg |-> "Error during audio extraction", fs |-> written,
             path |-> NoPath]
       ELSE [raised |-> FALSE, msg |-> "", fs |-> written, path |-> output_path]

\* run_all.py 50-59
Extract ==
    /\ pc = "Extracting"
    /\ status = "Running"
    /\ \E out \in FileOutcomes({1023, 1024}), uuid \in Uuids :
         LET lg == Info(log, "Extracting audio", <<>>)
             r == AudioExtractor_extract(fs, video_path, uuid, out)
         IN /\ calls' = Append(calls, Call("extract", video_path, <<>>))
            /\ fs' = r.fs
            /\ audio_path' = r.path
            /\ IF r.raised THEN Raise(lg, r.msg)
               ELSE IF ~validate_file_output(r.fs, r.path, DefaultMinBytes)
                    THEN Raise(lg, "Audio extraction failed")
                    ELSE Goto(Info(lg, "Starting transcription", <<>>), "Transcribing")
    /\ UNCHANGED <<config, video_path, transcripts, summaries, t_idx, s_idx, d_idx, returned>>
    /\ UNCHANGED <<caller, chunker, others>>

\* One iteration of the loop over config["models"]["transcription"] (62-72).
Transcribe ==
    /\ pc = "Transcribing"
    /\ status = "Running"
    /\ t_idx < Len(config.transcription)
    /\ LET model_name == config.transcription[t_idx + 1] IN
       \E first \in InferenceOutcomes, retry \in InferenceOutcomes :
         LET lg == Info(log, "Transcribing with", model_name)
             r == Transcriber_transcribe(fs, audio_path, model_name, first, retry)
         IN /\ calls' = Append(calls, Call("transcribe", audio_path, model_name))
            /\ fs' = r.fs
            /\ IF r.raised
               THEN /\ Raise(lg, r.msg)
                    /\ UNCHANGED <<transcripts, t_idx>>
               ELSE IF ~validate_file_output(r.fs, r.path, TranscriptMinBytes)
               THEN /\ Goto(Error(lg, "Transcript seems too short", model_name),
                            "Transcribing")
                    /\ t_idx' = t_idx + 1
                    /\ UNCHANGED transcripts
               ELSE /\ Goto(Info(lg, "Transcription completed successfully", model_name),
                            "Transcribing")
                    /\ t_idx' = t_idx + 1
                    /\ transcripts' = DictSet(transcripts, model_name, r.path)
    /\ UNCHANGED <<config, video_path, audio_path, summaries, s_idx, d_idx, returned>>
    /\ UNCHANGED <<caller, chunker, others>>

\* if not transcripts: raise ValueError(...)   (74-75)
NoTranscripts(ts) == ts = <<>>

\* The loop is over: the check of lines 74-75, then Summarizing starts (78-80).
EndTranscribing ==
    /\ pc = "Transcribing"
    /\ status = "Running"
    /\ t_idx = Len(config.transcription)
    /\ IF NoTranscripts(transcripts)
       THEN Raise(log, "All transcription attempts failed")
       ELSE Goto(Info(log, "Generating summaries", <<>>), "Summarizing")
    /\ UNCHANGED <<config, fs, video_path, audio_path, transcripts, summaries,
                   t_idx, s_idx, d_idx, calls, returned>>
    /\ UNCHANGED <<caller, chunker, others>>

\* Number of combinations the nested loops of lines 82-83 iterate.
Combinations == Len(transcripts) * Len(config.summarization)
\* The k-th combination (from 1): transcripts.items() outer, summarization inner.
ComboTranscript(k) == transcripts[((k - 1) \div Len(config.summarization)) + 1]
ComboModel(k) == config.summarization[((k - 1) % Len(config.summarization)) + 1]

\* Mutant of ComboKey: the key names the summarization model only.
ComboKey_summary_only(transcript_model, summary_model) == summary_model

\* f"{transcript_model}_{summary_model}"
ComboKey(transcript_model, summary_model) == transcript_model \o summary_model

\* One iteration of the nested loops (84-93).
Summarize ==
    /\ pc = "Summarizing"
    /\ status = "Running"
    /\ s_idx < Combinations
    /\ LET transcript_model == ComboTranscript(s_idx + 1)[1]
           transcript_path == ComboTranscript(s_idx + 1)[2]
           summary_model == ComboModel(s_idx + 1)
       IN
       \E out \in FileOutcomes({199, 200}) :
         LET lg == Info(log, "Summarizing transcript with",
                        ComboKey(transcript_model, summary_model))
             r == Summarizer_summarize(fs, transcript_path, summary_model, out)
         IN /\ calls' = Append(calls, Call("summarize", transcript_path, summary_model))
            /\ fs' = r.fs
            /\ IF r.raised
               THEN /\ Raise(lg, r.msg)
                    /\ UNCHANGED <<summaries, s_idx>>
               ELSE IF ~validate_file_output(r.fs, r.path, SummaryMinBytes)
               THEN /\ Goto(Error(lg, "Summary seems too short", summary_model),
                            "Summarizing")
                    /\ s_idx' = s_idx + 1
                    /\ UNCHANGED summaries
               ELSE /\ Goto(Info(lg, "Summarization completed successfully", summary_model),
                            "Summarizing")
                    /\ s_idx' = s_idx + 1
                    /\ summaries' = DictSet(summaries,
                                            ComboKey(transcript_model, summary_model), r.path)
    /\ UNCHANGED <<config, video_path, audio_path, transcripts, t_idx, d_idx, returned>>
    /\ UNCHANGED <<caller, chunker, others>>

\* Mutant of NoSummaries: the emptiness check is dropped.
NoSummaries_unchecked(ss) == FALSE

\* if not summaries: raise ValueError(...)   (95-96)
NoSummaries(ss) == ss = <<>>

\* The loops are over: the check of lines 95-96.
EndSummarizing ==
    /\ pc = "Summarizing"
    /\ status = "Running"
    /\ s_idx = Combinations
    /\ IF NoSummaries(summaries)
       THEN Raise(log, "All summarization attempts failed")
       ELSE Goto(log, "Constructing")
    /\ UNCHANGED <<config, fs, video_path, audio_path, transcripts, summaries,
                   t_idx, s_idx, d_idx, calls, returned>>
    /\ UNCHANGED <<caller, chunker, others>>

\* MindMapGenerator() and NoteGenerator() are constructed (99-100), outside the
\* try block of the loop: a constructor that cannot load its resources (NLTK
\* data, the two transformers pipelines) raises into the handler of 121-123.
Construct ==
    /\ pc = "Constructing"
    /\ status = "Running"
    /\ \E constructed \in BOOLEAN :
         IF constructed THEN Goto(log, "Deriving")
         ELSE Raise(log, "Generator could not be constructed")
    /\ UNCHANGED <<config, fs, video_path, audio_path, transcripts, summaries,
                   t_idx, s_idx, d_idx, calls, returned>>
    /\ UNCHANGED <<caller, chunker, others>>

\* Mutant of DeriveExcept: the handler re-raises instead of continuing.
DeriveExcept_reraise(lg, model_combo) ==
    [status |-> "Aborted", reason |-> "Error processing",
     log |-> Error(lg, "Error processing", model_combo)]

\* except Exception as e: logger.error(...); continue   (115-117)
DeriveExcept(lg, model_combo) ==
    [status |-> "Running", reason |-> "",
     log |-> Error(lg, "Error processing", model_combo)]

\* One iteration of the loop over summaries.items() (102-117): the mind map and
\* the notes/FAQ generation share one try block.
Derive ==
    /\ pc = "Deriving"
    /\ status = "Running"
    /\ d_idx < Len(summaries)
    /\ LET model_combo == summaries[d_idx + 1][1]
           summary_path == summaries[d_idx + 1][2]
       IN
       \E mm \in FileOutcomes({99, 100}), nt \in NoteOutcomes :
         LET lg1 == Info(log, "Generating mind map", model_combo)
             m == MindMapGenerator_generate(fs, summary_path, mm)
             lg2 == IF validate_file_output(m.fs, m.path, DefaultMinBytes) THEN lg1
                    ELSE Error(lg1, "Mind map generation failed", model_combo)
             lg3 == Info(lg2, "Generating notes and FAQs", model_combo)
             n == NoteGenerator_generate(m.fs, summary_path, nt)
             lg4 == IF /\ validate_file_output(n.fs, n.notes, DefaultMinBytes)
                       /\ validate_file_output(n.fs, n.faq, DefaultMinBytes)
                    THEN lg3
                    ELSE Error(lg3, "Notes/FAQ generation failed", model_combo)
             c1 == Append(calls, Call("mindmap", summary_path, <<>>))
             c2 == Append(c1, Call("notes", summary_path, <<>>))
         IN IF m.raised
            THEN LET h == DeriveExcept(lg1, model_combo)
                 IN /\ status' = h.status /\ reason' = h.reason /\ log' = h.log
                    /\ calls' = c1
                    /\ fs' = m.fs
            ELSE IF n.raised
            THEN LET h == DeriveExcept(lg3, model_combo)
                 IN /\ status' = h.status /\ reason' = h.reason /\ log' = h.log
                    /\ calls' = c2
                    /\ fs' = n.fs
            ELSE /\ status' = status /\ reason' = reason /\ log' = lg4
                 /\ calls' = c2
                 /\ fs' = n.fs
    /\ pc' = pc
    /\ d_idx' = d_idx + 1
    /\ UNCHANGED <<config, video_path, audio_path, transcripts, summaries, t_idx, s_idx,
                   returned>>
    /\ UNCHANGED <<caller, chunker, others>>

\* Mutant of Complete: process_video never returns from its last line.
Complete_stays ==
    /\ pc = "Deriving"
    /\ status = "Running"
    /\ d_idx = Len(summaries)
    /\ returned' = <<>>
    /\ UNCHANGED <<pc, status, reason, log>>
    /\ UNCHANGED <<config, fs, video_path, audio_path, transcripts, summaries,
                   t_idx, s_idx, d_idx, calls>>
    /\ UNCHANGED <<caller, chunker, others>>

\* logger.info("Processing complete!"); process_video returns None   (119)
Complete ==
    /\ pc = "Deriving"
    /\ status = "Running"
    /\ d_idx = Len(summaries)
    /\ log' = Info(log, "Processing complete!", <<>>)
    /\ status' = "Completed"
    /\ returned' = <<>>
    /\ UNCHANGED <<pc, reason>>
    /\ UNCHANGED <<config, fs, video_path, audio_path, transcripts, summaries,
                   t_idx, s_idx, d_idx, calls>>
    /\ UNCHANGED <<caller, chunker, others>>

Next ==
    \/ Load
    \/ Extract
    \/ Transcribe
    \/ EndTranscribing
    \/ Summarize
    \/ EndSummarizing
    \/ Construct
    \/ Derive
    \/ Complete

Spec == Init /\ [][Next]_vars

\* Configurations for following whole runs: no model, one model, and two
\* models of which the first is unknown, fails or succeeds.
FairTranscription == {<<>>, <<Vosk>>, <<Wav2Vec, Vosk>>, <<WhisperBase, Vosk>>}
FairSummarization == {<<>>, <<Bart>>, <<Bart, Bart>>, <<<<"llama">>, Bart>>}
FairInit ==
    /\ pc = "Loading"
    /\ status = "Running"
    /\ config \in [transcription : FairTranscription, summarization : FairSummarization]
    /\ fs = EmptyFs
    /\ video_path = NoPath
    /\ audio_path = NoPath
    /\ transcripts = <<>>
    /\ summaries = <<>>
    /\ t_idx = 0
    /\ s_idx = 0
    /\ d_idx = 0
    /\ log = <<>>
    /\ calls = <<>>
    /\ reason = ""
    /\ returned = <<>>
    /\ CallerIdle
    /\ ChunkerIdle
    /\ OthersIdle

\* process_video is sequential code and every collaborator call returns or
\* raises: whenever a step of the run is possible, a step is taken.
FairSpec == FairInit /\ [][Next]_vars /\ WF_vars(Next)

\* ------------------------------------------- callers of get_unique_filename
\* Most consecutive calls one caller makes with the same desired path.
MaxCalls == 3

\* Desired paths a caller can ask for: a plain stem, a stem that ends in one
\* _<integer> group, and one that ends in two.
Clip == <<"clip">>
DesiredStems == {Clip, <<"clip", "1">>, <<"clip", "2", "1">>}
\* Files the output directory can hold before the first call.
ExistingStems ==
    DesiredStems \cup {<<"clip", "2">>, <<"clip", "2", "2">>, <<"clip", "1", "1">>}
TranscriptPath(stem) == Path("transcripts", stem, "txt")

\* The file system that holds exactly the transcripts named by `stems`.
FilesOf(stems) ==
    [p \in {TranscriptPath(st) : st \in stems} |-> TranscriptMinBytes]

CallerInit ==
    /\ RunIdle
    /\ ChunkerIdle
    /\ OthersIdle
    /\ fs \in {FilesOf(stems) : stems \in SUBSET ExistingStems}
    /\ base_output_path \in {TranscriptPath(st) : st \in DesiredStems}
    /\ allocated = <<>>

\* Transcriber.transcribe 143-146: the path is allocated, then the file is
\* created there, before the caller asks again.
Allocate ==
    /\ Len(allocated) < MaxCalls
    /\ LET output_path == get_unique_filename(fs, base_output_path)
       IN /\ allocated' = Append(allocated, [path |-> output_path, before |-> fs])
          /\ fs' = WriteFile(fs, output_path, TranscriptMinBytes)
    /\ UNCHANGED <<base_output_path, run, chunker, others>>

CallerNext == Allocate

CallerSpec == CallerInit /\ [][CallerNext]_vars

\* ------------------------------------- TransformerSummarizer._chunk_text
\* Most pieces text.split('.') yields, most tokens the tokenizer counts for
\* one sentence, and the largest max_chunk_size.
MaxPieces == 4
MaxTokens == 3
MaxBudget == 2

\* [s.strip() for s in text.replace('\n', '. ').split('.') if s.strip()]:
\* the pieces that are not blank, in order.
Sentences(t) ==
    LET NotBlank(piece) == piece > 0 IN SelectSeq(t, NotBlank)

\* len(self.tokenizer.encode(sentence)) for the i-th sentence of the text.
SentenceTokens(t, i) == Sentences(t)[i]

\* Mutant of Overflows: the length of the current chunk is left out.
Overflows_sentence_only(length, sentence_tokens, max_size) == sentence_tokens > max_size

\* current_length + sentence_tokens > max_chunk_size   (line 46)
Overflows(length, sentence_tokens, max_size) == length + sentence_tokens > max_size

\* Mutant of StartChunk: the new chunk starts empty.
StartChunk_empty(sentence) == <<>>

\* current_chunk = [sentence]   (line 48)
StartChunk(sentence) == <<sentence>>

ChunkerInit ==
    /\ RunIdle
    /\ CallerIdle
    /\ OthersIdle
    /\ source_text = <<>>
    /\ fs = EmptyFs
    /\ text \in SeqsUpTo(0..MaxTokens, MaxPieces)
    /\ max_chunk_size \in 1..MaxBudget
    /\ chunks = <<>>
    /\ current_chunk = <<>>
    /\ current_length = 0
    /\ c_idx = 0
    /\ chunked = FALSE

\* One iteration of the for loop (44-52). " ".join(current_chunk) is kept as
\* the list of the sentences it joins: the chunk "" is <<>>.
ChunkSentence ==
    /\ ~chunked
    /\ c_idx < Len(Sentences(text))
    /\ LET sentence == c_idx + 1
           sentence_tokens == SentenceTokens(text, sentence)
       IN IF Overflows(current_length, sentence_tokens, max_chunk_size)
          THEN /\ chunks' = Append(chunks, current_chunk)
               /\ current_chunk' = StartChunk(sentence)
               /\ current_length' = sentence_tokens
          ELSE /\ chunks' = chunks
               /\ current_chunk' = Append(current_chunk, sentence)
               /\ current_length' = current_length + sentence_tokens
    /\ c_idx' = c_idx + 1
    /\ UNCHANGED <<text, max_chunk_size, chunked, source_text, fs, run, caller, others>>

\* if current_chunk: chunks.append(...); return chunks   (54-57)
ChunkReturn ==
    /\ ~chunked
    /\ c_idx = Len(Sentences(text))
    /\ chunks' = IF current_chunk # <<>> THEN Append(chunks, current_chunk) ELSE chunks
    /\ chunked' = TRUE
    /\ UNCHANGED <<text, max_chunk_size, current_chunk, current_length, c_idx, source_text,
                   fs, run, caller, others>>

ChunkerNext ==
    \/ ChunkSentence
    \/ ChunkReturn

ChunkerSpec == ChunkerInit /\ [][ChunkerNext]_vars

\* --------------------------- _chunk_text with a tokenizer that counts words
\* A text is its words and the separators "." and "\n" between them.
Period == "."
Newline == "\n"
SentenceOne == <<"Sentence", "one", Period>>
SentenceTwo == <<"Sentence", "two", Period>>
SentenceThree == <<"Sentence", "three", Period>>
\* What a text is made of: the three sentences, a lone period, a heading line.
Phrases == {SentenceOne, SentenceTwo, SentenceThree, <<Period>>, <<"Overview", Newline>>}
SourceTexts ==
    {<<>>} \cup Phrases \cup {a \o b : a, b \in Phrases}
           \cup {a \o b \o c : a, b, c \in Phrases}

\* text.replace('\n', '. ')
ReplaceNewlines(src) == [i \in DOMAIN src |-> IF src[i] = Newline THEN Period ELSE src[i]]

\* str.split('.'): the pieces between the periods, empty ones included.
RECURSIVE SplitOnPeriod(_)
SplitOnPeriod(src) ==
    IF \A i \in DOMAIN src : src[i] # Period THEN <<src>>
    ELSE LET i == CHOOSE n \in DOMAIN src :
                      src[n] = Period /\ \A k \in 1..(n - 1) : src[k] # Period
         IN <<SubSeq(src, 1, i - 1)>> \o SplitOnPeriod(SubSeq(src, i + 1, Len(src)))

\* The sentences of line 39 as word sequences: the pieces that are not blank.
SentenceWords(src) ==
    LET NotBlank(piece) == piece # <<>>
    IN SelectSeq(SplitOnPeriod(ReplaceNewlines(src)), NotBlank)

\* len(tokenizer.encode(piece)) for every piece when a token is a word.
PieceTokens(src) ==
    LET pieces == SplitOnPeriod(ReplaceNewlines(src))
    IN [i \in DOMAIN pieces |-> Len(pieces[i])]

\* " ".join(current_chunk) for a chunk given as the indices of its sentences.
RECURSIVE JoinSentences(_, _)
JoinSentences(src, chunk) ==
    IF chunk = <<>> THEN <<>>
    ELSE SentenceWords(src)[Head(chunk)] \o JoinSentences(src, Tail(chunk))

\* The budget of the scenario: the words of the first two sentences.
ScenarioBudget == Len(SentenceWords(SentenceOne \o SentenceTwo)[1])
                    + Len(SentenceWords(SentenceOne \o SentenceTwo)[2])
WordBudgets == {1, ScenarioBudget}

WordChunkerInit ==
    /\ RunIdle
    /\ CallerIdle
    /\ OthersIdle
    /\ fs = EmptyFs
    /\ source_text \in SourceTexts
    /\ text = PieceTokens(source_text)
    /\ max_chunk_size \in WordBudgets
    /\ chunks = <<>>
    /\ current_chunk = <<>>
    /\ current_length = 0
    /\ c_idx = 0
    /\ chunked = FALSE

WordChunkerSpec == WordChunkerInit /\ [][ChunkerNext]_vars

\* ------------------------------------- TransformerSummarizer.summarize
Space == " "
\* What tokenizer.decode can give for one chunk: a summary as its words.
ChunkSummaries == {<<>>, <<"gist">>, <<"key", "points">>}
\* model.generate returns, or raises and so ends the call.
GenerateOutcomes ==
    {[raised |-> TRUE]} \cup {[raised |-> FALSE, out |-> s] : s \in ChunkSummaries}

\* Mutant of JoinSpace: the summaries are concatenated with nothing between.
RECURSIVE JoinSpace_none(_)
JoinSpace_none(strings) ==
    IF strings = <<>> THEN <<>>
    ELSE Head(strings) \o JoinSpace_none(Tail(strings))

\* " ".join(summaries)   (line 83)
RECURSIVE JoinSpace(_)
JoinSpace(strings) ==
    IF strings = <<>> THEN <<>>
    ELSE IF Len(strings) = 1 THEN Head(strings)
    ELSE Head(strings) \o <<Space>> \o JoinSpace(Tail(strings))

\* The summaries list: the outputs of the calls that returned.
Summaries == [k \in DOMAIN generated |-> generated[k].out]

\* chunks = self._chunk_text(text) (line 60) is the chunker above, run to its
\* return; summarize starts with no call made.
SummarizerInit == WordChunkerInit

\* One iteration of the for loop (63-81): the next chunk, prefixed, goes to
\* model.generate; its decoded output is appended to summaries.
SummarizeChunk ==
    /\ chunked
    /\ s_status \in {"Idle", "Running"}
    /\ Len(Summaries) < Len(chunks)
    /\ LET k == Len(Summaries) + 1
           chunk == JoinSentences(source_text, chunks[k])
       IN \E o \in GenerateOutcomes :
             IF o.raised
             THEN /\ generated' = generated
                  /\ inferred' = Append(inferred, <<"summarize:">> \o chunk)
                  /\ s_status' = "Raised"
             ELSE /\ generated' = Append(generated, [chunk |-> k, out |-> o.out])
                  /\ inferred' = Append(inferred, <<"summarize:">> \o chunk)
                  /\ s_status' = "Running"
    /\ UNCHANGED <<summary, fs, run, caller, chunker, whisper_call, twin, logsys, mainargs>>

\* return " ".join(summaries)   (line 83)
SummarizeReturn ==
    /\ chunked
    /\ s_status \in {"Idle", "Running"}
    /\ Len(Summaries) = Len(chunks)
    /\ summary' = JoinSpace(Summaries)
    /\ s_status' = "Returned"
    /\ UNCHANGED <<generated, inferred, fs, run, caller, chunker, whisper_call, twin,
                   logsys, mainargs>>

SummarizerNext ==
    \/ ChunkSentence
    \/ ChunkReturn
    \/ SummarizeChunk
    \/ SummarizeReturn

SummarizerSpec == SummarizerInit /\ [][SummarizerNext]_vars

\* --------------------------------------------------------------------- main
\* utils.validate_config over what yaml.safe_load returned: `top` are the keys
\* of the mapping, `is_dict` whether config["models"] is a mapping, and
\* `model_keys` its keys.
TopKeys == {"video_source", "models"}
ModelKeys == {"transcription", "summarization"}

\* Mutant of validate_config: the keys of config["models"] are not looked at.
validate_config_top_only(cfg) == \A key \in TopKeys : key \in cfg.top

\* utils.validate_config
validate_config(cfg) ==
    IF ~(\A key \in TopKeys : key \in cfg.top) THEN FALSE
    ELSE IF "models" \in cfg.top
         THEN IF ~cfg.is_dict THEN FALSE
              ELSE IF ~(\A key \in ModelKeys : key \in cfg.model_keys) THEN FALSE
              ELSE TRUE
    ELSE TRUE

\* The model lists a configuration file of this model can name.
MainTranscription == {<<>>, <<Vosk>>}
MainSummarization == {<<Bart>>}
RawConfigs ==
    {[top |-> t, is_dict |-> d, model_keys |-> k, transcription |-> tr, summarization |-> su] :
        t \in SUBSET TopKeys, d \in BOOLEAN, k \in SUBSET ModelKeys,
        tr \in MainTranscription, su \in MainSummarization}

\* Another video whose stem begins with this video's stem, and an unrelated one.
LectureTwo == <<"lecture", "2">>
Seminar == <<"seminar">>
\* The uuid and the time stamp in the names of files that earlier runs left.
OldUuid == "0a1b2c3d"
OldStamp == <<"20240101", "120000">>
\* Files earlier runs can have left, each with the video it was made from.
PriorArtifacts ==
    {[video |-> VideoName,
      path |-> Path("transcripts", VideoName \o <<OldUuid>> \o Vosk, "txt")],
     [video |-> LectureTwo,
      path |-> Path("transcripts", LectureTwo \o <<OldUuid>> \o Vosk, "txt")],
     [video |-> LectureTwo,
      path |-> Path("audios", LectureTwo \o <<OldUuid>>, "wav")],
     [video |-> Seminar,
      path |-> Path("summaries", Seminar \o <<OldUuid>> \o Vosk \o Bart, "md")],
     [video |-> VideoName,
      path |-> Path("logs", VideoName \o OldStamp, "log")]}

\* output_dirs of clean_output_directories (utils.py 86-93).
OutputDirs == {"transcripts", "summaries", "mindmaps", "notes", "faqs", "audios"}

\* file.startswith(video_name): the stems of this model share no partial
\* token, so the string prefix is a prefix of the "_"-joined tokens.
StartsWith(name, prefix) ==
    Len(prefix) <= Len(name) /\ SubSeq(name, 1, Len(prefix)) = prefix

\* utils.clean_output_directories; video_name is <<>> for None.
clean_output_directories(f, video_name) ==
    LET Removed(p) ==
            /\ p.dir \in OutputDirs
            /\ (video_name # <<>> => StartsWith(p.name, video_name))
    IN [p \in {q \in DOMAIN f : ~Removed(q)} |-> f[p]]

MainInit ==
    /\ RunIdle
    /\ CallerIdle
    /\ ChunkerIdle
    /\ SummarizerIdle
    /\ WhisperIdle
    /\ TwinIdle
    /\ LoggingIdle
    /\ fs \in {[p \in {a.path : a \in prior} |-> TranscriptMinBytes] :
                 prior \in SUBSET PriorArtifacts}
    /\ clean \in {"none", "video", "all"}
    /\ raw_config \in RawConfigs

\* main 134-141: the outputs are cleaned as --clean asks.
MainClean ==
    /\ pc = "Idle"
    /\ pc' = "Configuring"
    /\ fs' = IF clean = "all" THEN clean_output_directories(fs, <<>>)
             ELSE IF clean = "video" THEN clean_output_directories(fs, VideoName)
             ELSE fs
    /\ UNCHANGED <<status, config, video_path, audio_path, transcripts, summaries,
                   t_idx, s_idx, d_idx, log, calls, reason, returned>>
    /\ UNCHANGED <<caller, chunker, others>>

\* main 143-147: load_config validates the configuration and raises for an
\* invalid one; otherwise process_video is entered with it.
MainLoadConfig ==
    /\ pc = "Configuring"
    /\ status = "Idle"
    /\ IF validate_config(raw_config)
       THEN /\ pc' = "Loading"
            /\ status' = "Running"
            /\ config' = [transcription |-> raw_config.transcription,
                          summarization |-> raw_config.summarization]
            /\ reason' = reason
       ELSE /\ pc' = pc
            /\ status' = "Rejected"
            /\ config' = config
            /\ reason' = "Invalid configuration file"
    /\ UNCHANGED <<fs, video_path, audio_path, transcripts, summaries,
                   t_idx, s_idx, d_idx, log, calls, returned>>
    /\ UNCHANGED <<caller, chunker, others>>

MainNext ==
    \/ MainClean
    \/ MainLoadConfig
    \/ Next

MainSpec == MainInit /\ [][MainNext]_vars

\* ------------------------------------ two runs of the same video and config
\* The same video, the same configuration and the same files to start with;
\* every collaborator behaves the same in both runs, and each run draws its
\* own uuid in AudioExtractor.extract. The second run's files are fs2.
TwinTranscription == {<<Vosk>>, <<Vosk, Vosk>>, <<WhisperBase, Vosk>>}
TwinFiles ==
    {WriteFile(EmptyFs, VideoFile, DefaultMinBytes),
     WriteFile(WriteFile(EmptyFs, VideoFile, DefaultMinBytes),
               Path("transcripts", VideoName \o <<OldUuid>> \o Vosk, "txt"),
               TranscriptMinBytes)}

TwinInit ==
    /\ pc = "Extracting"
    /\ status = "Running"
    /\ config \in [transcription : TwinTranscription, summarization : {<<Bart>>}]
    /\ fs \in TwinFiles
    /\ fs2 = fs
    /\ video_path = VideoFile
    /\ audio_path = NoPath
    /\ audio_path2 = NoPath
    /\ transcripts = <<>>
    /\ summaries = <<>>
    /\ t_idx = 0
    /\ s_idx = 0
    /\ d_idx = 0
    /\ log = <<>>
    /\ calls = <<>>
    /\ reason = ""
    /\ returned = <<>>
    /\ CallerIdle
    /\ ChunkerIdle
    /\ SummarizerIdle
    /\ WhisperIdle
    /\ LoggingIdle
    /\ MainIdle

\* Both runs extract the audio (run_all.py 50-55, audio_extractor.py 45-65).
TwinExtract ==
    /\ pc = "Extracting"
    /\ status = "Running"
    /\ \E out \in FileOutcomes({1023, 1024}), uuid1 \in Uuids, uuid2 \in Uuids :
         LET r1 == AudioExtractor_extract(fs, video_path, uuid1, out)
             r2 == AudioExtractor_extract(fs2, video_path, uuid2, out)
         IN /\ fs' = r1.fs
            /\ fs2' = r2.fs
            /\ audio_path' = r1.path
            /\ audio_path2' = r2.path
            /\ IF r1.raised THEN Raise(log, r1.msg) ELSE Goto(log, "Transcribing")
    /\ UNCHANGED <<config, video_path, transcripts, summaries, t_idx, s_idx, d_idx,
                   calls, returned>>
    /\ UNCHANGED <<caller, chunker, summarizer, whisper_call, logsys, mainargs>>

\* Both runs make the next transcription attempt (run_all.py 62-64,
\* transcriber.py 136-149).
TwinTranscribe ==
    /\ pc = "Transcribing"
    /\ status = "Running"
    /\ t_idx < Len(config.transcription)
    /\ LET model_name == config.transcription[t_idx + 1] IN
       \E first \in InferenceOutcomes, retry \in InferenceOutcomes :
         LET r1 == Transcriber_transcribe(fs, audio_path, model_name, first, retry)
             r2 == Transcriber_transcribe(fs2, audio_path2, model_name, first, retry)
         IN /\ fs' = r1.fs
            /\ fs2' = r2.fs
            /\ IF r1.raised
               THEN Raise(log, r1.msg) /\ t_idx' = t_idx
               ELSE Goto(log, "Transcribing") /\ t_idx' = t_idx + 1
    /\ UNCHANGED <<config, video_path, audio_path, audio_path2, transcripts, summaries,
                   s_idx, d_idx, calls, returned>>
    /\ UNCHANGED <<caller, chunker, summarizer, whisper_call, logsys, mainargs>>

TwinNext ==
    \/ TwinExtract
    \/ TwinTranscribe

TwinSpec == TwinInit /\ [][TwinNext]_vars

\* -------------------------------------- WhisperTranscriber.transcribe alone
\* Most words a result of this specification has.
MaxWordCount == 11
\* Results of model.transcribe: "" , a blank text, and texts of 1.. words.
WhisperTexts == {Text(0, 0), Text(0, 1)} \cup {Text(w, 6 * w) : w \in 1..MaxWordCount}
WhisperOutcomes ==
    {[raised |-> TRUE, text |-> EmptyText]}
    \cup {[raised |-> FALSE, text |-> t] : t \in WhisperTexts}

WhisperInit ==
    /\ RunIdle
    /\ CallerIdle
    /\ ChunkerIdle
    /\ SummarizerIdle
    /\ TwinIdle
    /\ LoggingIdle
    /\ MainIdle
    /\ fs = EmptyFs
    /\ whisper_call = NoWhisperCall

\* One call of WhisperTranscriber.transcribe (transcriber.py 23-78).
WhisperCall ==
    /\ ~whisper_call.made
    /\ \E first \in WhisperOutcomes, retry \in WhisperOutcomes :
         whisper_call' = [made |-> TRUE, first |-> first, retry |-> retry,
                          result |-> WhisperTranscriber_transcribe(first, retry)]
    /\ UNCHANGED <<fs, run, caller, chunker, summarizer, twin, logsys, mainargs>>

WhisperNext == WhisperCall

WhisperSpec == WhisperInit /\ [][WhisperNext]_vars

\* ------------------------------------------------------------ setup_logging
\* Most setup_logging calls in one process, and most messages one run logs.
MaxRuns == 2
MaxMessages == 2

\* datetime.now().strftime("%Y%m%d_%H%M%S") at two successive seconds.
Clock == <<OldStamp, <<"20240101", "120001">>>>
LogVideos == {VideoName, Seminar}
\* The levels process_video logs at, and logging's numbers for them.
Levels == {"INFO", "ERROR"}
LevelNo(level) == IF level = "ERROR" THEN 40 ELSE 20
\* logging.StreamHandler(): the stream sys.stderr, not a file.
Console == Path("stream", <<"stderr">>, "")

\* f"video_ai_{video_name}"   (line 17)
LoggerName(video_name) == <<"video", "ai">> \o video_name
\* f"{video_name}_{timestamp}.log" and f"{video_name}_{timestamp}_error.log"
LogFile(video_name, stamp) == Path("logs", video_name \o stamp, "log")
ErrorLogFile(video_name, stamp) == Path("logs", video_name \o stamp \o <<"error">>, "log")

\* logging.getLogger(name): the handlers of the logger of that name, which is
\* made on the first call and is the same object on every later one.
getLogger(registry, name) == IF name \in DOMAIN registry THEN registry[name] ELSE <<>>

\* logging.FileHandler(path): opens the file for appending, creating it.
OpenAppend(files, path) ==
    IF path \in DOMAIN files THEN files
    ELSE [q \in DOMAIN files \cup {path} |-> IF q = path THEN <<>> ELSE files[q]]

\* Logger.handle: every handler of the logger whose level admits the record
\* emits it, in the order the handlers were added.
RECURSIVE Emit(_, _, _)
Emit(files, handlers, rec) ==
    IF handlers = <<>> THEN files
    ELSE LET h == Head(handlers)
             written ==
                 IF h.target # Console /\ LevelNo(rec.level) >= LevelNo(h.level)
                 THEN [files EXCEPT ![h.target] = Append(@, rec)]
                 ELSE files
         IN Emit(written, Tail(handlers), rec)

LogInit ==
    /\ RunIdle
    /\ CallerIdle
    /\ ChunkerIdle
    /\ SummarizerIdle
    /\ WhisperIdle
    /\ TwinIdle
    /\ MainIdle
    /\ fs = EmptyFs
    /\ loggers = [n \in {} |-> <<>>]
    /\ log_files = [q \in {} |-> <<>>]
    /\ runs = <<>>

\* setup_logging(video_name)   (10-50)
SetupLogging ==
    /\ Len(runs) < MaxRuns
    /\ \E video_name \in LogVideos, now \in DOMAIN Clock :
          /\ runs # <<>> => now >= runs[Len(runs)].now
          /\ LET name == LoggerName(video_name)
                 log_file == LogFile(video_name, Clock[now])
                 error_log_file == ErrorLogFile(video_name, Clock[now])
                 handlers == getLogger(loggers, name)
                                \o <<[target |-> log_file, level |-> "INFO"],
                                     [target |-> error_log_file, level |-> "ERROR"],
                                     [target |-> Console, level |-> "INFO"]>>
             IN /\ loggers' = [n \in DOMAIN loggers \cup {name} |->
                                  IF n = name THEN handlers ELSE loggers[n]]
                /\ log_files' = OpenAppend(OpenAppend(log_files, log_file), error_log_file)
                /\ runs' = Append(runs, [logger |-> name, now |-> now,
                                         log_file |-> log_file,
                                         error_log_file |-> error_log_file,
                                         messages |-> <<>>])
    /\ UNCHANGED <<fs, run, caller, chunker, summarizer, whisper_call, twin, mainargs>>

\* logger.info(...) or logger.error(...) by the run set up last.
LogMessage ==
    /\ runs # <<>>
    /\ LET r == Len(runs) IN
       /\ Len(runs[r].messages) < MaxMessages
       /\ \E level \in Levels :
             LET rec == [run |-> r, n |-> Len(runs[r].messages) + 1, level |-> level]
             IN /\ log_files' = Emit(log_files, loggers[runs[r].logger], rec)
                /\ runs' = [runs EXCEPT ![r].messages = Append(@, level)]
    /\ UNCHANGED <<loggers, fs, run, caller, chunker, summarizer, whisper_call, twin,
                   mainargs>>

LogNext ==
    \/ SetupLogging
    \/ LogMessage

LogSpec == LogInit /\ [][LogNext]_vars

\* ------------------------------------------------------------------ claims
AbortedIn(stage) == status = "Aborted" /\ pc = stage
NumCalls(op) == Cardinality({i \in DOMAIN calls : calls[i].op = op})
NumCallsOn(op, path) ==
    Cardinality({i \in DOMAIN calls : calls[i].op = op /\ calls[i].path = path})
Logged(level, msg) == \E i \in DOMAIN log : log[i].level = level /\ log[i].msg = msg
Distinct(s) == \A i, j \in DOMAIN s : s[i] = s[j] => i = j
\* The file at p holds at least n bytes.
Holds(p, n) == Exists(fs, p) /\ fs[p] >= n

\* C1: a transcription model that fails (Transcriber.transcribe raises, or its
\* output fails validation) is skipped: a run that is aborted in the
\* Transcribing stage has attempted every configured model and none succeeded.
C1_TranscribeFailureSkipped ==
    AbortedIn("Transcribing") =>
        /\ NumCalls("transcribe") = Len(config.transcription)
        /\ transcripts = <<>>

\* C2: a (transcript, summarization model) combination that fails (raise or
\* invalid output) is skipped: a run that is aborted in the Summarizing stage
\* has attempted every combination and none yielded a valid summary.
C2_SummarizeFailureSkipped ==
    AbortedIn("Summarizing") =>
        /\ NumCalls("summarize") = Combinations
        /\ summaries = <<>>

\* C3: no later stage is given an artifact that fails validation: every
\* transcript handed to Summarize holds at least 500 bytes and every summary
\* handed to a derivative generator holds at least 200 bytes.
C3_NoInvalidArtifactChained ==
    \A i \in DOMAIN calls :
        /\ calls[i].op = "summarize" => Holds(calls[i].path, TranscriptMinBytes)
        /\ calls[i].op \in {"mindmap", "notes"} => Holds(calls[i].path, SummaryMinBytes)

\* The transcript file of model m when no other attempt of the run used its name.
TranscriptFile(m) == Path("transcripts", audio_path.name \o m, "txt")
\* The configured models whose transcript passes validation, in configured order.
PassedModels ==
    LET Passes(m) == Holds(TranscriptFile(m), TranscriptMinBytes)
    IN SelectSeq(config.transcription, Passes)
\* The loop over the transcription models ran to its end.
TranscribingDone ==
    /\ pc \notin {"Loading", "Extracting"}
    /\ t_idx = Len(config.transcription)
TranscribeCalls ==
    LET IsTranscribe(c) == c.op = "transcribe" IN SelectSeq(calls, IsTranscribe)

\* C4: with k distinct transcription models that all produce output, all k are
\* attempted in configured order, the transcripts registry holds exactly the
\* models whose output passed validation, in configured order, and the run is
\* not aborted in Transcribing when at least one passed.
C4_PartialFailureRegistry ==
    (Distinct(config.transcription) /\ TranscribingDone) =>
        /\ Len(TranscribeCalls) = Len(config.transcription)
        /\ \A i \in DOMAIN TranscribeCalls :
              TranscribeCalls[i].model = config.transcription[i]
        /\ transcripts = [i \in 1..Len(PassedModels) |->
                            <<PassedModels[i], TranscriptFile(PassedModels[i])>>]
        /\ (PassedModels # <<>> => ~AbortedIn("Transcribing"))

\* Two distinct models, the first fails validation, the second is registered
\* and the run has gone on to Summarizing.
C4_Witness ==
    /\ Distinct(config.transcription)
    /\ Len(config.transcription) = 2
    /\ pc = "Summarizing"
    /\ Len(transcripts) = 1
    /\ transcripts[1][1] = config.transcription[2]
    /\ Exists(fs, TranscriptFile(config.transcription[1]))

\* C5: when every configured transcription model has been attempted and has
\* failed (or none is configured), the run is Aborted with the reason "All
\* transcription attempts failed", the registry is empty and no Summarize or
\* Derive call is made.
C5_AllTranscriptionsFailed ==
    (/\ pc \notin {"Loading", "Extracting"}
     /\ ~(pc = "Transcribing" /\ status = "Running")
     /\ NumCalls("transcribe") = Len(config.transcription)
     /\ transcripts = <<>>) =>
        /\ AbortedIn("Transcribing")
        /\ reason = "All transcription attempts failed"
        /\ NumCalls("summarize") = 0
        /\ NumCalls("mindmap") = 0
        /\ NumCalls("notes") = 0

\* With an empty summary set the run is not past Summarizing, has not completed
\* and has invoked neither the mind-map nor the notes/FAQ generator.
EmptySummariesStop ==
    summaries = <<>> =>
        /\ pc \in {"Loading", "Extracting", "Transcribing", "Summarizing"}
        /\ status # "Completed"
        /\ NumCalls("mindmap") = 0
        /\ NumCalls("notes") = 0

\* The Summarizing loops are exhausted and no summary was registered.
SummarizingEndsEmpty ==
    /\ pc = "Summarizing"
    /\ status = "Running"
    /\ s_idx = Combinations
    /\ summaries = <<>>

\* C6: when the Summarizing stage ends with an empty summary set the next step
\* aborts the run, and a run with an empty summary set never gets past
\* Summarizing, never completes and never invokes a derivative generator.
C6_EmptySummariesAbort ==
    /\ []EmptySummariesStop
    /\ [][SummarizingEndsEmpty => AbortedIn("Summarizing")']_vars

\* Every combination was attempted, each failed validation, the run is Aborted.
C6_Witness ==
    /\ AbortedIn("Summarizing")
    /\ reason = "All summarization attempts failed"
    /\ s_idx = Combinations
    /\ NumCalls("summarize") >= 2

\* Load raised, or the file it returned fails validation.
LoadFailed ==
    /\ NumCalls("load") = 1
    /\ (video_path = NoPath \/ ~Holds(video_path, DefaultMinBytes))
\* Extract raised, or the file it returned fails validation.
ExtractFailed ==
    /\ NumCalls("extract") = 1
    /\ (audio_path = NoPath \/ ~Holds(audio_path, DefaultMinBytes))

\* C7: after a failed Load the run is Aborted and load is the only collaborator
\* ever called; after a failed Extract the run is Aborted and nothing is
\* called after extract.
C7_LoadExtractFailureAborts ==
    /\ LoadFailed => (AbortedIn("Loading") /\ Len(calls) = 1)
    /\ ExtractFailed => (AbortedIn("Extracting") /\ Len(calls) = 2)

\* Load returned a file that fails validation.
C7_Witness ==
    /\ LoadFailed
    /\ video_path # NoPath
    /\ status = "Aborted"

C9_BothGeneratorsPerSummary ==
    pc = "Deriving" =>
        \A i \in 1..d_idx :
            /\ NumCallsOn("mindmap", summaries[i][2]) = 1
            /\ NumCallsOn("notes", summaries[i][2]) = 1

\* The attempts the run skipped, as the error records it logged.
SkippedAttempts ==
    LET IsError(r) == r.level = "ERROR" IN SelectSeq(log, IsError)

\* C10: a Completed run returns the artifact registry together with an entry
\* for every skipped attempt.
C10_ResultReportsSkips ==
    status = "Completed" => returned = <<transcripts, summaries, SkippedAttempts>>

\* a is an initial segment of b.
IsPrefix(a, b) == Len(a) <= Len(b) /\ \A i \in DOMAIN a : b[i] = a[i]
\* The step logs `msg` as its last record.
StepLogs(msg) == Len(log') > Len(log) /\ log'[Len(log')].msg = msg

\* C11: the registries are append-only: a step never replaces or removes an
\* entry of transcripts or summaries, and every registration (a transcript or
\* summary that passed validation) adds one entry under a key that was not in
\* the registry, also when the configuration names a model more than once.
C11_RegistryAppendOnly ==
    [][/\ IsPrefix(transcripts, transcripts')
       /\ IsPrefix(summaries, summaries')
       /\ StepLogs("Transcription completed successfully")
             => Len(transcripts') = Len(transcripts) + 1
       /\ StepLogs("Summarization completed successfully")
             => Len(summaries') = Len(summaries) + 1]_vars

\* The (transcription model, summarization model) pairs the nested loops visit.
IteratedPairs ==
    {<<ComboTranscript(k)[1], ComboModel(k)>> : k \in 1..Combinations}

\* C12: two pairs the Summarizing loops visit have the same registry key
\* exactly when they are the same pair, every key of the summaries registry
\* is the key of a visited pair, and no key occurs in two entries.
C12_DistinctPairsDistinctKeys ==
    pc \in {"Summarizing", "Constructing", "Deriving"} =>
        /\ \A a, b \in IteratedPairs :
              (ComboKey(a[1], a[2]) = ComboKey(b[1], b[2])) <=> (a = b)
        /\ \A i \in DOMAIN summaries :
              \E a \in IteratedPairs : summaries[i][1] = ComboKey(a[1], a[2])
        /\ \A i, j \in DOMAIN summaries : summaries[i][1] = summaries[j][1] => i = j

\* Two transcripts were summarized by the same model and both are registered.
C12_Witness ==
    /\ pc = "Deriving"
    /\ Len(transcripts) = 2
    /\ Len(summaries) = 2
    /\ \E a, b \in IteratedPairs : a[1] # b[1] /\ a[2] = b[2]

\* C13: no step overwrites a file: every file that exists before a step is
\* still there with the same content after it.
C13_NoFileOverwritten ==
    [][\A p \in DOMAIN fs : p \in DOMAIN fs' /\ fs'[p] = fs[p]]_vars

\* C14: the paths N sequential calls with the same desired path returned are
\* pairwise distinct, and none of them existed when its call was made.
C14_SequentialCallsDistinct ==
    /\ \A i, j \in DOMAIN allocated : allocated[i].path = allocated[j].path => i = j
    /\ \A i \in DOMAIN allocated : ~Exists(allocated[i].before, allocated[i].path)

\* Three calls were made and the desired path existed before the first.
C14_Witness ==
    /\ Len(allocated) = 3
    /\ Exists(allocated[1].before, base_output_path)
    /\ allocated[3].path # base_output_path

\* The smallest n >= 1 for which <stem>_<n>.<ext> does not exist in f.
SmallestFree(f, dir, stem, ext) ==
    CHOOSE n \in DOMAIN CounterStr :
        /\ ~Exists(f, Path(dir, Append(stem, CounterStr[n]), ext))
        /\ \A k \in 1..(n - 1) : Exists(f, Path(dir, Append(stem, CounterStr[k]), ext))
\* What the allocator is to return for desired path p over the files f.
ExpectedPath(f, p) ==
    IF ~Exists(f, p) THEN p
    ELSE LET stem == StripCounter(p.name)
         IN Path(p.dir, Append(stem, CounterStr[SmallestFree(f, p.dir, stem, p.ext)]), p.ext)

\* C16: every call returned the desired path when it did not exist, and
\* otherwise <stem>_<n>.<ext> for the stem with one trailing _<integer> group
\* stripped and the smallest n >= 1 that is free.
C16_ReturnsSmallestFreeSuffix ==
    \A i \in DOMAIN allocated :
        allocated[i].path = ExpectedPath(allocated[i].before, base_output_path)

\* What the validator is to answer for path p and threshold m: false for a
\* path that does not exist, true for a file of exactly m bytes, false for one
\* of m - 1 bytes, and otherwise whether the file holds at least m bytes.
ExpectedValid(f, p, m) ==
    IF ~Exists(f, p) THEN FALSE
    ELSE IF f[p] = m THEN TRUE
    ELSE IF f[p] = m - 1 THEN FALSE
    ELSE f[p] >= m

\* C17: for each threshold the pipeline uses, validate_file_output is true of
\* a path exactly when it exists and holds at least that many bytes (a file of
\* exactly the threshold passes, one byte less fails), and for a path that
\* does not exist it answers false; its result is a Boolean and nothing else.
C17_ValidatorBoundary ==
    \A m \in {DefaultMinBytes, SummaryMinBytes, TranscriptMinBytes} :
        \A p \in DOMAIN fs \cup {NoPath, TranscriptFile(Wav2Vec)} :
            validate_file_output(fs, p, m) = ExpectedValid(fs, p, m)

\* One transcript of exactly 500 bytes was registered, one of 499 was not.
C17_Witness ==
    /\ pc = "Summarizing"
    /\ Len(transcripts) = 1
    /\ \E p, q \in DOMAIN fs :
          /\ fs[p] = TranscriptMinBytes /\ transcripts[1][2] = p
          /\ fs[q] = TranscriptMinBytes - 1 /\ q.dir = "transcripts"

\* Total token count of a chunk: the sum of its sentences' counts.
RECURSIVE ChunkTokens(_)
ChunkTokens(chunk) ==
    IF chunk = <<>> THEN 0
    ELSE SentenceTokens(text, Head(chunk)) + ChunkTokens(Tail(chunk))

\* The sentences of all chunks, in the order of the chunks.
RECURSIVE Flatten(_)
Flatten(cs) == IF cs = <<>> THEN <<>> ELSE Head(cs) \o Flatten(Tail(cs))

\* C18: every returned chunk totals at most max_chunk_size tokens unless it
\* is a single sentence; a sentence that alone exceeds max_chunk_size is in
\* exactly one chunk and is that chunk's only sentence.
C18_ChunksWithinBudget ==
    chunked =>
        /\ \A k \in DOMAIN chunks :
              ChunkTokens(chunks[k]) <= max_chunk_size \/ Len(chunks[k]) = 1
        /\ \A i \in DOMAIN Sentences(text) :
              SentenceTokens(text, i) > max_chunk_size =>
                  /\ \E k \in DOMAIN chunks : chunks[k] = <<i>>
                  /\ \A k \in DOMAIN chunks :
                        (\E n \in DOMAIN chunks[k] : chunks[k][n] = i) => chunks[k] = <<i>>

\* A chunk of two sentences, then an oversized sentence alone, then a third chunk.
C18_Witness ==
    /\ chunked
    /\ Len(chunks) >= 3
    /\ \E k \in DOMAIN chunks : Len(chunks[k]) >= 2
    /\ \E k \in DOMAIN chunks :
          Len(chunks[k]) = 1 /\ ChunkTokens(chunks[k]) > max_chunk_size

\* C19: the sentences of the returned chunks, taken chunk by chunk, are the
\* sentences of the text: each once, in their order.
C19_ChunksCoverSentences ==
    chunked => Flatten(chunks) = [i \in 1..Len(Sentences(text)) |-> i]

\* A text with a blank piece and three sentences was split into several chunks.
C19_Witness ==
    /\ chunked
    /\ Len(Sentences(text)) >= 3
    /\ Len(Sentences(text)) < Len(text)
    /\ Len(chunks) >= 2

\* C20: no returned chunk is empty.
C20_NoEmptyChunk ==
    chunked => \A k \in DOMAIN chunks : chunks[k] # <<>>

\* The chunks _chunk_text returned, as strings.
ChunkStrings == [k \in DOMAIN chunks |-> JoinSentences(source_text, chunks[k])]

\* C21: for the text "Sentence one. Sentence two. Sentence three.", word
\* counts as token counts and the budget of the first two sentences, the
\* chunker returns exactly <<"Sentence one. Sentence two.", "Sentence three.">>.
C21_ScenarioChunks ==
    (/\ chunked
     /\ source_text = SentenceOne \o SentenceTwo \o SentenceThree
     /\ max_chunk_size = ScenarioBudget) =>
        ChunkStrings = <<SentenceOne \o SentenceTwo, SentenceThree>>

\* The word count of the text a transcript file of `size` bytes holds.
WordsIn(size) == (CHOOSE t \in Texts : t.bytes = size).words

\* C22: for every configured transcription model whose attempt returned a
\* transcript, the transcript is registered exactly when its text is not empty
\* and has at least 10 words.
C22_AcceptedIffTenWords ==
    Distinct(config.transcription) =>
        \A i \in 1..t_idx :
            LET m == config.transcription[i]
                size == fs[TranscriptFile(m)]
            IN HasKey(transcripts, m) <=> (size > 0 /\ WordsIn(size) >= MinWords)

\* The configuration lacks none of the keys video_source, models,
\* models.transcription and models.summarization.
ConfigComplete ==
    /\ "video_source" \in raw_config.top
    /\ "models" \in raw_config.top
    /\ raw_config.is_dict
    /\ "transcription" \in raw_config.model_keys
    /\ "summarization" \in raw_config.model_keys

OwnerOf(p) == (CHOOSE a \in PriorArtifacts : a.path = p).video

\* C29: cleaning with --clean video leaves every file of another video and
\* every log file as it was.
C29_CleanVideoKeepsOthers ==
    [][(pc = "Idle" /\ pc' = "Configuring" /\ clean = "video") =>
          \A p \in DOMAIN fs :
              (OwnerOf(p) # VideoName \/ p.dir = "logs") =>
                  (p \in DOMAIN fs' /\ fs'[p] = fs[p])]_vars

\* C24: two runs with the same video, configuration, initial files and
\* collaborator results hold files of the same names at every stage.
C24_SameInputsSameNames ==
    DOMAIN fs = DOMAIN fs2

\* C25: when the first inference returns, a second one is made exactly when
\* the first result has fewer than 10 words (an empty result included), never
\* a third, and the attempt fails for shortness only after a retry whose
\* result also has fewer than 10 words.
C25_ExactlyOneRetry ==
    (whisper_call.made /\ ~whisper_call.first.raised) =>
        LET r == whisper_call.result
        IN /\ r.inferences \in {1, 2}
           /\ (r.inferences = 2) <=> (whisper_call.first.text.words < MinWords)
           /\ (r.raised /\ r.msg = "Transcription seems too short") =>
                 /\ r.inferences = 2
                 /\ ~whisper_call.retry.raised
                 /\ whisper_call.retry.text.words < MinWords

\* The Summarize calls of the run, in the order they were made.
SummarizeCalls ==
    LET IsSummarize(c) == c.op = "summarize" IN SelectSeq(calls, IsSummarize)
\* The run is past the Summarizing loops, or was aborted inside them.
SummarizingOver ==
    \/ pc \in {"Constructing", "Deriving"}
    \/ AbortedIn("Summarizing")

\* C26: no Summarize call is made before the last Transcribe attempt has
\* finished, and when the Summarizing stage is over Summarize has been called
\* exactly once for every (validated transcript, configured summarization
\* model) pair, transcripts in registry order and models in configured order.
C26_SummarizeOncePerPair ==
    /\ NumCalls("summarize") > 0 => t_idx = Len(config.transcription)
    /\ \A i, j \in DOMAIN calls :
          (i < j /\ calls[i].op = "summarize") => calls[j].op # "transcribe"
    /\ (/\ Distinct(config.transcription)
        /\ Distinct(config.summarization)
        /\ SummarizingOver) =>
          SummarizeCalls =
              [k \in 1..Combinations |->
                  Call("summarize", ComboTranscript(k)[2], ComboModel(k))]

\* What summarize has to give the model: each chunk of the chunker, prefixed.
ExpectedInputs == [k \in DOMAIN chunks |-> <<"summarize:">> \o ChunkStrings[k]]
\* Where the k-th chunk summary starts in the joined string, counting from 0:
\* the summaries before it and one separator after each.
RECURSIVE SummaryOffset(_)
SummaryOffset(k) ==
    IF k = 1 THEN 0 ELSE SummaryOffset(k - 1) + Len(generated[k - 1].out) + 1

\* C27: TransformerSummarizer.summarize gives the model the chunks of the
\* chunker one by one in chunk order, and when it returns it has made exactly
\* one inference call per chunk and returns the chunk summaries in that order
\* with exactly one space between neighbours and nothing else.
C27_OneInferencePerChunkJoined ==
    /\ ~chunked => inferred = <<>>
    /\ chunked => IsPrefix(inferred, ExpectedInputs)
    /\ s_status = "Returned" =>
          LET n == Len(chunks) IN
          /\ inferred = ExpectedInputs
          /\ Len(generated) = n
          /\ \A k \in 1..n :
                /\ generated[k].chunk = k
                /\ SubSeq(summary, SummaryOffset(k) + 1,
                          SummaryOffset(k) + Len(generated[k].out)) = generated[k].out
                /\ k < n => summary[SummaryOffset(k) + Len(generated[k].out) + 1] = Space
          /\ Len(summary) = IF n = 0 THEN 0 ELSE SummaryOffset(n) + Len(generated[n].out)
\* summarize has returned the join of at least two chunk summaries.
C27_Witness ==
    /\ s_status = "Returned"
    /\ Len(chunks) >= 2
    /\ Len(inferred) = Len(chunks)
    /\ \E k \in DOMAIN generated : generated[k].out # <<>>

\* How many times the record is in the file.
Occurrences(path, rec) ==
    Cardinality({i \in DOMAIN log_files[path] : log_files[path][i] = rec})
\* The log files some run other than r was set up with.
FilesOfOtherRuns(r) ==
    UNION {{runs[q].log_file, runs[q].error_log_file} : q \in DOMAIN runs \ {r}}

\* C28: every message a run logs is in that run's info log exactly once, in
\* its error log exactly once when it is an error and not at all otherwise,
\* and in none of the log files of another run.
C28_RunsShareNoLogs ==
    \A r \in DOMAIN runs :
       \A n \in DOMAIN runs[r].messages :
          LET rec == [run |-> r, n |-> n, level |-> runs[r].messages[n]]
          IN /\ Occurrences(runs[r].log_file, rec) = 1
             /\ Occurrences(runs[r].error_log_file, rec) =
                   (IF rec.level = "ERROR" THEN 1 ELSE 0)
             /\ \A path \in FilesOfOtherRuns(r) : Occurrences(path, rec) = 0

Terminal == {"Completed", "Aborted"}
\* A step from a terminal state changes neither the state nor the calls made.
StaysTerminated ==
    status \in Terminal => (status' = status /\ pc' = pc /\ calls' = calls)

\* C30: a running process_video eventually is Completed or Aborted, and once
\* it is, it stays in that one state and makes no further stage call.
C30_RunTerminates ==
    /\ (status = "Running") ~> (status \in Terminal)
    /\ [][StaysTerminated]_vars
\* A run that went round every loop and completed.
C30_Witness ==
    /\ status = "Completed"
    /\ NumCalls("transcribe") >= 2
    /\ NumCalls("summarize") >= 2
    /\ d_idx = Len(summaries)
    /\ d_idx >= 1

====
